---- MODULE Spec2Model ----
(***************************************************************************)
(* cached_property (src/web/cached_property.py): a property descriptor     *)
(* that caches the getter's result in the owning instance's __dict__ under *)
(* the getter's __name__ and drops that entry on every set and delete.     *)
(*                                                                         *)
(* An instance is modelled by its __dict__, a function from the attribute  *)
(* names it holds to integers.  An accessor is the record of the fields    *)
(* __init__ stores.  User functions are records [name, body, doc]: their   *)
(* __name__, what their body does, and their __doc__.                      *)
(***************************************************************************)
EXTENDS Integers, Sequences, FiniteSets, TLC

VARIABLES
    dict,     \* dict[i]: obj.__dict__ of instance i
    last,     \* the most recent operation and what the caller observed
    ncomp,    \* ncomp[i][k]: calls of a getter for slot k of i since the last successful set/delete on it
    rets,     \* rets[i][k]: values reads of slot k of i returned since then
    props,    \* the accessor objects a class body has built, in order of creation
    rebound,  \* the most recent getter/setter/deleter call: on which object, with what, giving which
    log,      \* the calls of a script on one instance, the most recent last
    thr,      \* thr[t]: the call thread t is executing, and where it is
    seen      \* the interleavings that have happened among threads

vars == <<dict, last, ncomp, rets, props, rebound, log, thr, seen>>

-----------------------------------------------------------------------------
(* Bounds and program constants *)

\* How far a self._p += 1 may carry the field above a value written to it.
MaxDrift == 1

\* Test.__init__: self._p = 10
InitP == 10

\* The values the demo assigns: t.p = 10, t.p = 20
SetVals == {10, 20}

\* A value that is false in a Python condition.
FalsyVals == {0}

Values == {v + k : v \in SetVals \cup FalsyVals, k \in 0..MaxDrift}

Instances == {"t1"}

Backing == "_p"

-----------------------------------------------------------------------------
(* User-supplied functions *)

None == [name |-> "None", body |-> "None", doc |-> "None"]

NoDoc == "None"

\* def p(self): return self._p
fget_p == [name |-> "p", body |-> "return", doc |-> NoDoc]

\* def p(self): self._p += 1; return self._p
fget_p_inc == [name |-> "p", body |-> "inc_return", doc |-> "counts reads"]

\* a getter of another name over the same field
fget_q == [name |-> "q", body |-> "return", doc |-> "q of the field"]

\* def p(self, value): self._p = value
fset_p == [name |-> "p", body |-> "assign", doc |-> NoDoc]

\* the same deleter under another name
fdel_q == [name |-> "q", body |-> "reset", doc |-> NoDoc]

\* the same setter under another name
fset_q == [name |-> "q", body |-> "assign", doc |-> "sets the field"]

\* a deleter putting the field back to what the constructor gave it
fdel_p == [name |-> "p", body |-> "reset", doc |-> NoDoc]

\* def p(self, value): self._p = value; raise ValueError
fset_fail == [name |-> "p", body |-> "assign_raise", doc |-> NoDoc]

\* def p(self, value): raise ValueError
fset_refuse == [name |-> "p", body |-> "raise", doc |-> NoDoc]

\* a deleter that resets the field and then raises
fdel_fail == [name |-> "p", body |-> "reset_raise", doc |-> NoDoc]

\* whether a call of the user function ends in an exception
Raises(f) == f.body \in {"assign_raise", "raise", "reset_raise"}

Fgets == {fget_p, fget_p_inc, fget_q}
Fsets == {fset_p}
Fdels == {fdel_p}

SlotKeys == {f.name : f \in Fgets}

\* self.fget(obj): the dict the call leaves and the value it returns
CallFget(f, d) ==
    IF f.body = "return"
    THEN [d |-> d, ret |-> d[Backing]]
    ELSE [d |-> [d EXCEPT ![Backing] = @ + 1], ret |-> d[Backing] + 1]

\* self.fset(obj, value)
CallFset(f, d, value) ==
    IF f.body = "raise" THEN d ELSE [d EXCEPT ![Backing] = value]

\* self.fdel(obj)
CallFdel(f, d) ==
    IF f.body = "raise" THEN d ELSE [d EXCEPT ![Backing] = InitP]

\* inc_p written as self.p += 1: the field changes through the property's
\* setter, which drops the cached value
inc_p_through_property(d) ==
    [x \in DOMAIN d \ {"p"} |-> IF x = Backing THEN d[x] + 1 ELSE d[x]]

\* def inc_p(self): self._p += 1
inc_p(d) == [d EXCEPT ![Backing] = @ + 1]

-----------------------------------------------------------------------------
(* obj.__dict__ operations *)

DictSet(d, k, v) == [x \in DOMAIN d \cup {k} |-> IF x = k THEN v ELSE d[x]]

DictDel(d, k) == [x \in DOMAIN d \ {k} |-> d[x]]

\* Test(): the __dict__ after __init__
NewDict == [x \in {Backing} |-> InitP]

-----------------------------------------------------------------------------
(* The descriptor *)

__init__(fget, fset, fdel, doc) ==
    [fget |-> fget, fset |-> fset, fdel |-> fdel,
     doc |-> IF doc = NoDoc /\ fget # None THEN fget.doc ELSE doc]

Result(d, outcome, ret, calls) ==
    [d |-> d, outcome |-> outcome, ret |-> ret, calls |-> calls]

\* __get__ without the "in obj.__dict__" test: every read calls the getter
get_always_computes(self, d) ==
    IF self.fget = None
    THEN Result(d, "Unreadable", <<>>, <<>>)
    ELSE LET r == CallFget(self.fget, d)
         IN Result(DictSet(r.d, self.fget.name, r.ret), "ok", <<r.ret>>, <<"fget">>)

\* __get__ returning the computed value without "obj.__dict__[...] ="
get_never_stores(self, d) ==
    IF self.fget = None
    THEN Result(d, "Unreadable", <<>>, <<>>)
    ELSE IF self.fget.name \in DOMAIN d
    THEN Result(d, "ok", <<d[self.fget.name]>>, <<>>)
    ELSE LET r == CallFget(self.fget, d)
         IN Result(r.d, "ok", <<r.ret>>, <<"fget">>)

\* __get__ caching the field as it was before the getter ran instead of the
\* getter's result
get_stores_field(self, d) ==
    IF self.fget = None
    THEN Result(d, "Unreadable", <<>>, <<>>)
    ELSE IF self.fget.name \in DOMAIN d
    THEN Result(d, "ok", <<d[self.fget.name]>>, <<>>)
    ELSE LET r == CallFget(self.fget, d)
         IN Result(DictSet(r.d, self.fget.name, d[Backing]), "ok", <<r.ret>>, <<"fget">>)

\* __get__ testing the cached value's truth ("if obj.__dict__.get(name):")
\* instead of the key's presence
get_truthy(self, d) ==
    IF self.fget = None
    THEN Result(d, "Unreadable", <<>>, <<>>)
    ELSE IF self.fget.name \in DOMAIN d /\ d[self.fget.name] \notin FalsyVals
    THEN Result(d, "ok", <<d[self.fget.name]>>, <<>>)
    ELSE LET r == CallFget(self.fget, d)
         IN Result(DictSet(r.d, self.fget.name, r.ret), "ok", <<r.ret>>, <<"fget">>)

\* __get__ without the "fget is None" test: it goes on to self.fget.__name__
get_unguarded(self, d) ==
    IF self.fget = None
    THEN Result(d, "NoneTypeError", <<>>, <<>>)
    ELSE IF self.fget.name \in DOMAIN d
    THEN Result(d, "ok", <<d[self.fget.name]>>, <<>>)
    ELSE LET r == CallFget(self.fget, d)
         IN Result(DictSet(r.d, self.fget.name, r.ret), "ok", <<r.ret>>, <<"fget">>)

__get__(self, d) ==
    IF self.fget = None
    THEN Result(d, "Unreadable", <<>>, <<>>)
    ELSE IF self.fget.name \in DOMAIN d
    THEN Result(d, "ok", <<d[self.fget.name]>>, <<>>)
    ELSE LET r == CallFget(self.fget, d)
         IN Result(DictSet(r.d, self.fget.name, r.ret), "ok", <<r.ret>>, <<"fget">>)

\* "if self.fget.__name__ in obj.__dict__: del ...", which fails on fget None
Invalidate(self, d, calls) ==
    IF self.fget = None
    THEN Result(d, "NoneTypeError", <<>>, calls)
    ELSE IF self.fget.name \in DOMAIN d
    THEN Result(DictDel(d, self.fget.name), "ok", <<>>, calls)
    ELSE Result(d, "ok", <<>>, calls)

\* __set__ without the del: the cached value survives the write
set_keeps_cache(self, d, value) ==
    IF self.fset = None
    THEN Result(d, "Unwritable", <<>>, <<>>)
    ELSE Result(CallFset(self.fset, d, value), "ok", <<>>, <<"fset">>)

\* __set__ without the "fset is None" test: it goes on to the invalidation
set_unguarded(self, d, value) ==
    IF self.fset = None
    THEN Invalidate(self, d, <<>>)
    ELSE Invalidate(self, CallFset(self.fset, d, value), <<"fset">>)

\* __set__ caching the written value instead of dropping the cached one
set_stores_value(self, d, value) ==
    IF self.fset = None
    THEN Result(d, "Unwritable", <<>>, <<>>)
    ELSE IF self.fget = None
    THEN Result(CallFset(self.fset, d, value), "NoneTypeError", <<>>, <<"fset">>)
    ELSE Result(DictSet(CallFset(self.fset, d, value), self.fget.name, value),
                "ok", <<>>, <<"fset">>)

\* __set__ dropping the cached value before it tests fset
set_invalidates_first(self, d, value) ==
    IF self.fset = None
    THEN Result(Invalidate(self, d, <<>>).d, "Unwritable", <<>>, <<>>)
    ELSE Invalidate(self, CallFset(self.fset, d, value), <<"fset">>)

\* __set__ with the invalidation in a finally clause: it runs although fset
\* raised
set_invalidates_anyway(self, d, value) ==
    IF self.fset = None
    THEN Result(d, "Unwritable", <<>>, <<>>)
    ELSE IF Raises(self.fset)
    THEN Result(Invalidate(self, CallFset(self.fset, d, value), <<>>).d,
                "UserError", <<>>, <<"fset">>)
    ELSE Invalidate(self, CallFset(self.fset, d, value), <<"fset">>)

__set__(self, d, value) ==
    IF self.fset = None
    THEN Result(d, "Unwritable", <<>>, <<>>)
    ELSE IF Raises(self.fset)
    THEN Result(CallFset(self.fset, d, value), "UserError", <<>>, <<"fset">>)
    ELSE Invalidate(self, CallFset(self.fset, d, value), <<"fset">>)

\* __delete__ without the del: the cached value survives the delete
delete_keeps_cache(self, d) ==
    IF self.fdel = None
    THEN Result(d, "Undeletable", <<>>, <<>>)
    ELSE Result(CallFdel(self.fdel, d), "ok", <<>>, <<"fdel">>)

__delete__(self, d) ==
    IF self.fdel = None
    THEN Result(d, "Undeletable", <<>>, <<>>)
    ELSE IF Raises(self.fdel)
    THEN Result(CallFdel(self.fdel, d), "UserError", <<>>, <<"fdel">>)
    ELSE Invalidate(self, CallFdel(self.fdel, d), <<"fdel">>)

getter(self, fget) == __init__(fget, self.fset, self.fdel, self.doc)

\* setter passing None where it should pass self.fdel
setter_drops_fdel(self, fset) == __init__(self.fget, fset, None, self.doc)

setter(self, fset) == __init__(self.fget, fset, self.fdel, self.doc)

deleter(self, fdel) == __init__(self.fget, self.fset, fdel, self.doc)

-----------------------------------------------------------------------------
(* The accessors a class may carry, and the sequential program *)

Accessors ==
    {__init__(g, s, e, NoDoc) :
        g \in Fgets \cup {None}, s \in Fsets \cup {None}, e \in Fdels \cup {None}}

NoAccessor == __init__(None, None, None, NoDoc)

Idle == [pc |-> "idle", op |-> "none", acc |-> NoAccessor, inst |-> "None",
         arg |-> <<>>, value |-> <<>>, crossed |-> FALSE]

Threads == {"th1", "th2"}

\* the cached value under self's key in d, as a sequence of at most one value
Slot(self, d) ==
    IF self.fget # None /\ self.fget.name \in DOMAIN d
    THEN <<d[self.fget.name]>>
    ELSE <<>>

\* whether the call before this one went through the same accessor on the
\* same instance and succeeded
Follows(a, i) == last.acc = a /\ last.inst = i /\ last.outcome = "ok"

\* whether the call before this one was a set or delete through the same
\* accessor on the same instance that raised
Refused(a, i) ==
    /\ last.acc = a /\ last.inst = i /\ last.op \in {"Write", "Delete"}
    /\ last.outcome # "ok"

\* what the caller of op through a on i saw, the slot the call found (slot0),
\* and the same of the call it follows
Observed(op, a, i, arg, r) ==
    [op |-> op, acc |-> a, inst |-> i, arg |-> arg, outcome |-> r.outcome,
     ret |-> r.ret, calls |-> r.calls, slot0 |-> Slot(a, dict[i]),
     after |-> IF Follows(a, i) THEN last.op ELSE "other",
     afterArg |-> IF Follows(a, i) THEN last.arg ELSE <<>>,
     afterSlot0 |-> IF Follows(a, i) THEN last.slot0 ELSE <<>>,
     failed |-> IF Refused(a, i) THEN last.outcome ELSE "none"]

\* an observation of something that is no instance access
Unobserved(op, a, i, outcome) ==
    [op |-> op, acc |-> a, inst |-> i, arg |-> <<>>, outcome |-> outcome,
     ret |-> <<>>, calls |-> <<>>, slot0 |-> <<>>,
     after |-> "other", afterArg |-> <<>>, afterSlot0 |-> <<>>, failed |-> "none"]

InBounds(d) == d[Backing] \in Values

\* the per-slot history after a call through a on i that ended as r
Counted(a, i, op, r) ==
    IF a.fget = None THEN ncomp
    ELSE IF op = "Read"
    THEN [ncomp EXCEPT ![i][a.fget.name] =
              @ + Len(SelectSeq(r.calls, LAMBDA c : c = "fget"))]
    ELSE IF r.outcome = "ok" THEN [ncomp EXCEPT ![i][a.fget.name] = 0]
    ELSE ncomp

Returned(a, i, op, r) ==
    IF a.fget = None THEN rets
    ELSE IF op = "Read"
    THEN [rets EXCEPT ![i][a.fget.name] = @ \cup {r.ret[j] : j \in DOMAIN r.ret}]
    ELSE IF r.outcome = "ok" THEN [rets EXCEPT ![i][a.fget.name] = {}]
    ELSE rets

\* the cache kept in the descriptor instead of in obj.__dict__: every
\* instance sees the slots the call leaves
StoreOnAll(dicts, i, d) ==
    [j \in DOMAIN dicts |->
        IF j = i THEN d
        ELSE [x \in DOMAIN d |-> IF x = Backing THEN dicts[j][Backing] ELSE d[x]]]

\* the call worked on obj.__dict__, the dict of the instance it was made on
Store(dicts, i, d) == [dicts EXCEPT ![i] = d]

Apply(op, a, i, arg, r) ==
    /\ InBounds(r.d)
    /\ dict' = Store(dict, i, r.d)
    /\ last' = Observed(op, a, i, arg, r)
    /\ ncomp' = Counted(a, i, op, r)
    /\ rets' = Returned(a, i, op, r)
    /\ UNCHANGED <<props, rebound, thr, seen>>

InitCommon ==
    /\ dict = [i \in Instances |-> NewDict]
    /\ last = Unobserved("init", NoAccessor, "None", "ok")
    /\ ncomp = [i \in Instances |-> [k \in SlotKeys |-> 0]]
    /\ rets = [i \in Instances |-> [k \in SlotKeys |-> {}]]
    /\ thr = [t \in Threads |-> Idle]
    /\ log = <<>>
    /\ seen = {}

NotRebound == [op |-> "none", self |-> 0, was |-> NoAccessor, fn |-> None, new |-> 0]

Init ==
    /\ InitCommon
    /\ props = <<>>
    /\ rebound = NotRebound

\* t.p
Read(a, i) == Apply("Read", a, i, <<>>, __get__(a, dict[i])) /\ UNCHANGED log

\* Test.p: obj is None, the descriptor returns itself
ReadOnClass(a) ==
    /\ last' = Unobserved("Read", a, "None", "self")
    /\ UNCHANGED <<dict, ncomp, rets, props, rebound, log, thr, seen>>

\* t.p = value
Write(a, i, value) ==
    Apply("Write", a, i, <<value>>, __set__(a, dict[i], value)) /\ UNCHANGED log

\* del t.p
Delete(a, i) == Apply("Delete", a, i, <<>>, __delete__(a, dict[i])) /\ UNCHANGED log

\* t.inc_p(): the field changes behind the accessor's back
IncPStep(i) ==
    /\ InBounds(inc_p(dict[i]))
    /\ dict' = [dict EXCEPT ![i] = inc_p(@)]
    /\ last' = Unobserved("inc_p", NoAccessor, i, "ok")
    /\ UNCHANGED <<ncomp, rets, props, rebound, thr, seen>>

IncP(i) == IncPStep(i) /\ UNCHANGED log

Next ==
    \/ \E a \in Accessors, i \in Instances : Read(a, i)
    \/ \E a \in Accessors : ReadOnClass(a)
    \/ \E a \in Accessors, i \in Instances, value \in SetVals : Write(a, i, value)
    \/ \E a \in Accessors, i \in Instances : Delete(a, i)
    \/ \E i \in Instances : IncP(i)

Spec == Init /\ [][Next]_vars

-----------------------------------------------------------------------------
(* Properties of the sequential program *)

\* C1: between two successful sets/deletes of a slot the getter is called at
\* most once for it, exactly once as soon as a read of it has returned, and
\* every read of it returns the same value, the one the slot holds.
C1_SingleComputation ==
    \A i \in Instances, k \in SlotKeys :
        /\ ncomp[i][k] <= 1
        /\ Cardinality(rets[i][k]) <= 1
        /\ rets[i][k] # {} => ncomp[i][k] = 1
        /\ k \in DOMAIN dict[i] => rets[i][k] = {dict[i][k]}
        /\ (last.op = "Read" /\ last.outcome = "ok" /\ last.inst = i
                /\ last.acc.fget.name = k)
            => (last.calls = <<"fget">>) = (last.slot0 = <<>>)

\* a second read in a row came from the cache
C1_Witness ==
    /\ last.op = "Read" /\ last.after = "Read"
    /\ last.calls = <<>> /\ last.ret = last.slot0 /\ last.ret # <<>>
    /\ ncomp[last.inst][last.acc.fget.name] = 1

\* the value the getter yields from the field as fset(value) leaves it
Recomputed(a, value) == CallFget(a.fget, CallFset(a.fset, NewDict, value)).ret

\* C2: a read right after a successful write through the same accessor finds
\* the slot empty, calls the getter, and returns what the getter yields from
\* the field as the setter left it.
C2_WriteInvalidates ==
    (last.op = "Read" /\ last.after = "Write")
        => /\ last.outcome = "ok"
           /\ last.slot0 = <<>>
           /\ last.calls = <<"fget">>
           /\ last.ret = <<Recomputed(last.acc, last.afterArg[1])>>
           /\ Slot(last.acc, dict[last.inst]) = last.ret

\* 10 was cached, 20 was written, the read returned 20
C2_Witness ==
    /\ last.op = "Read" /\ last.after = "Write"
    /\ last.afterSlot0 = <<10>> /\ last.afterArg = <<20>>
    /\ last.ret = <<20>> /\ last.calls = <<"fget">>

\* C3: a read right after a successful delete through the same accessor finds
\* the slot empty and calls the getter, whether or not the delete found a
\* cached value.
C3_DeleteInvalidates ==
    (last.op = "Read" /\ last.after = "Delete")
        => /\ last.outcome = "ok"
           /\ last.slot0 = <<>>
           /\ last.calls = <<"fget">>
           /\ last.ret = <<CallFget(last.acc.fget, CallFdel(last.acc.fdel, NewDict)).ret>>

\* a value was cached, the delete dropped it, the read called the getter
C3_Witness ==
    /\ last.op = "Read" /\ last.after = "Delete"
    /\ last.afterSlot0 # <<>> /\ last.calls = <<"fget">>
    /\ last.ret # last.afterSlot0

\* C4: a write through an accessor without fset ends in "can't set
\* attribute", a delete through one without fdel in "can't delete attribute";
\* neither calls a user function, and neither changes the instance.
C4_ReadOnlyEnforcement ==
    /\ (last.op = "Write" /\ last.acc.fset = None)
        => /\ last.outcome = "Unwritable" /\ last.calls = <<>>
           /\ Slot(last.acc, dict[last.inst]) = last.slot0
    /\ (last.op = "Delete" /\ last.acc.fdel = None)
        => /\ last.outcome = "Undeletable" /\ last.calls = <<>>
           /\ Slot(last.acc, dict[last.inst]) = last.slot0

\* a write through a read-only accessor that holds a cached value was refused
C4_Witness ==
    /\ last.op = "Write" /\ last.acc.fset = None /\ last.acc.fget # None
    /\ last.outcome = "Unwritable" /\ last.slot0 # <<>>

\* C5: a write through an accessor with fset bound and a delete through one
\* with fdel bound end without error, whatever else the accessor binds; the
\* only errors are the three the accessor raises itself.
C5_OnlyThreeFailures ==
    /\ last.outcome \in {"ok", "self", "Unreadable", "Unwritable", "Undeletable"}
    /\ (last.op = "Write" /\ last.acc.fset # None) => last.outcome = "ok"
    /\ (last.op = "Delete" /\ last.acc.fdel # None) => last.outcome = "ok"

\* C6: a read, write or delete through one accessor leaves the slot of every
\* other accessor on the instance as it was.
C6_SlotsKeyedByIdentity ==
    [][\A i \in Instances, b \in Accessors :
          (last'.inst = i /\ last'.op \in {"Read", "Write", "Delete"} /\ last'.acc # b)
              => Slot(b, dict'[i]) = Slot(b, dict[i])]_vars

\* C9: a cached value stays in its slot, and reads keep returning it without
\* calling the getter, whatever happens to the field, until a successful
\* write or delete through an accessor of that slot drops it.
C9_StaleUntilInvalidated ==
    [][\A i \in Instances, k \in SlotKeys :
          k \in DOMAIN dict[i]
              => \/ /\ k \in DOMAIN dict'[i] /\ dict'[i][k] = dict[i][k]
                    /\ (last'.op = "Read" /\ last'.inst = i /\ last'.acc.fget # None
                            /\ last'.acc.fget.name = k)
                        => (last'.ret = <<dict[i][k]>> /\ last'.calls = <<>>)
                 \/ /\ last'.op \in {"Write", "Delete"} /\ last'.inst = i
                    /\ last'.outcome = "ok" /\ last'.acc.fget.name = k
                    /\ k \notin DOMAIN dict'[i]]_vars

\* the field went from 10 to 11 behind the accessor and a read of "return
\* self._p" still returned 10
C9_Witness ==
    /\ last.op = "Read" /\ last.acc.fget = fget_p
    /\ last.ret = <<10>> /\ last.calls = <<>>
    /\ dict[last.inst][Backing] = 11

-----------------------------------------------------------------------------
(* Further properties of the sequential program *)

\* C11: after every successful write or delete the accessor's slot is empty,
\* whatever it held before; a slot goes from empty to holding a value only in
\* a read that calls the getter.
C11_OnlyReadFills ==
    [][/\ (last'.op \in {"Write", "Delete"} /\ last'.outcome = "ok")
            => Slot(last'.acc, dict'[last'.inst]) = <<>>
       /\ \A i \in Instances, k \in SlotKeys :
             (k \notin DOMAIN dict[i] /\ k \in DOMAIN dict'[i])
                 => /\ last'.op = "Read" /\ last'.inst = i
                    /\ last'.acc.fget.name = k
                    /\ last'.calls = <<"fget">>]_vars

\* a write of 20 over a cached 10 left the slot empty
C11_Witness ==
    /\ last.op = "Write" /\ last.outcome = "ok" /\ last.arg = <<20>>
    /\ last.slot0 = <<10>> /\ Slot(last.acc, dict[last.inst]) = <<>>

\* C14: a read on an instance through an accessor without fget ends in
\* "unreadable attribute", calls no user function and leaves the instance's
\* __dict__ as it was.
C14_Unreadable ==
    [][(last'.op = "Read" /\ last'.inst \in Instances /\ last'.acc.fget = None)
          => /\ last'.outcome = "Unreadable" /\ last'.calls = <<>>
             /\ last'.ret = <<>>
             /\ dict' = dict]_vars

\* a read through an accessor that binds fset and fdel but no fget was
\* refused, on an instance that holds cached values
C14_Witness ==
    /\ last.op = "Read" /\ last.inst \in Instances
    /\ last.acc.fget = None /\ last.acc.fset # None /\ last.acc.fdel # None
    /\ last.outcome = "Unreadable"
    /\ DOMAIN dict[last.inst] # {Backing}

\* C15: a write refused for want of fset and a delete refused for want of
\* fdel leave the instance's __dict__ as it was; a cached value is still
\* returned by the next read through that accessor, without a getter call.
C15_RefusedChangesNothing ==
    [][/\ last'.outcome \in {"Unwritable", "Undeletable"} => dict' = dict
       /\ (last.outcome \in {"Unwritable", "Undeletable"} /\ last.slot0 # <<>>
              /\ last'.op = "Read" /\ last'.acc = last.acc /\ last'.inst = last.inst)
           => (last'.ret = last.slot0 /\ last'.calls = <<>>)]_vars

\* a read right after a refused write returned the value cached before it
C15_Witness ==
    /\ last.op = "Read" /\ last.failed = "Unwritable"
    /\ last.calls = <<>> /\ last.ret = last.slot0 /\ last.ret # <<>>

\* this step is a read of slot k of instance i that called the getter
Computes(i, k) ==
    /\ last'.op = "Read" /\ last'.inst = i /\ last'.calls = <<"fget">>
    /\ last'.acc.fget.name = k

\* C12: a slot that holds a value holds what the most recent getter call for
\* it returned, and that call came after the most recent successful write or
\* delete on the slot: a getter call leaves its result in the slot, no other
\* step puts or changes a value there, and a slot holding a value has had a
\* getter call since the last successful write or delete.
C12_SlotIsLastComputed ==
    [][\A i \in Instances, k \in SlotKeys :
          /\ Computes(i, k)
              => /\ k \in DOMAIN dict'[i]
                 /\ dict'[i][k] = CallFget(last'.acc.fget, dict[i]).ret
          /\ (k \in DOMAIN dict'[i] /\ ~Computes(i, k))
              => (k \in DOMAIN dict[i] /\ dict'[i][k] = dict[i][k])
          /\ k \in DOMAIN dict'[i] => ncomp'[i][k] = 1]_vars

\* after a write of 20 the incrementing getter ran and the slot holds its 21
C12_Witness ==
    /\ last.op = "Read" /\ last.after = "Write" /\ last.afterArg = <<20>>
    /\ last.acc.fget = fget_p_inc /\ last.calls = <<"fget">>
    /\ Slot(last.acc, dict[last.inst]) = <<21>>
    /\ ncomp[last.inst]["p"] = 1

-----------------------------------------------------------------------------
(* Building accessors in a class body: cached_property(...), then        *)
(* .getter/.setter/.deleter, each giving a new object                    *)

\* How many accessor objects a class body builds.
MaxProps == 3

Docs == {NoDoc, "doc of the property"}

Constructible ==
    {__init__(g, s, e, doc) :
        g \in Fgets \cup {None}, s \in {fset_p, None}, e \in {fdel_p, None},
        doc \in Docs}

InitRebind ==
    /\ InitCommon
    /\ \E a \in Constructible : props = <<a>>
    /\ rebound = NotRebound

Rebind(op, j, fn, new) ==
    /\ Len(props) < MaxProps
    /\ props' = Append(props, new)
    /\ rebound' = [op |-> op, self |-> j, was |-> props[j], fn |-> fn,
                    new |-> Len(props) + 1]
    /\ UNCHANGED <<dict, last, ncomp, rets, log, thr, seen>>

Getter(j, fget) == Rebind("getter", j, fget, getter(props[j], fget))

Setter(j, fset) == Rebind("setter", j, fset, setter(props[j], fset))

Deleter(j, fdel) == Rebind("deleter", j, fdel, deleter(props[j], fdel))

NextRebind ==
    \/ \E j \in DOMAIN props, fget \in Fgets \cup {None} : Getter(j, fget)
    \/ \E j \in DOMAIN props, fset \in {fset_p, fset_q, None} : Setter(j, fset)
    \/ \E j \in DOMAIN props, fdel \in {fdel_p, fdel_q, None} : Deleter(j, fdel)

SpecRebind == InitRebind /\ [][NextRebind]_vars

\* every __dict__ an instance may have
Dicts ==
    UNION {[K \cup {Backing} -> Values] : K \in SUBSET SlotKeys}

\* the bindings of the new object: one replaced by fn, two taken from self
OneReplaced ==
    LET old == props[rebound.self]
        new == props[rebound.new]
    IN /\ new.fget = IF rebound.op = "getter" THEN rebound.fn ELSE old.fget
       /\ new.fset = IF rebound.op = "setter" THEN rebound.fn ELSE old.fset
       /\ new.fdel = IF rebound.op = "deleter" THEN rebound.fn ELSE old.fdel

\* the object the rebind was called on is what it was before the call
OriginalKept == props[rebound.self] = rebound.was

\* reads and deletes through what setter returned go as through the original
SiblingsBehaveAlike ==
    LET old == props[rebound.self]
        new == props[rebound.new]
    IN rebound.op = "setter"
        => \A d \in Dicts :
              /\ __get__(new, d) = __get__(old, d)
              /\ __delete__(new, d) = __delete__(old, d)

\* C7 as stated: getter/setter/deleter give a new accessor with exactly one
\* binding replaced, the other two and the documentation those of the
\* original; reads and deletes through setter's result go as through the
\* original.
C7_RebindPreservesSiblings ==
    rebound.op # "none"
        => /\ OneReplaced
           /\ OriginalKept
           /\ SiblingsBehaveAlike
           /\ props[rebound.new].doc = props[rebound.self].doc

\* C7 amended: as above, except that the documentation is the original's only
\* when the original has one or the rebind is no getter call; getter on an
\* accessor without documentation takes the new getter's docstring.  The
\* objects built before are left as they were.
C7_RebindPreservesSiblingsAmended ==
    rebound.op # "none"
        => /\ OneReplaced
           /\ OriginalKept
           /\ SiblingsBehaveAlike
           /\ props[rebound.new].doc =
                 IF rebound.op = "getter" /\ props[rebound.self].doc = NoDoc
                        /\ rebound.fn # None
                 THEN rebound.fn.doc
                 ELSE props[rebound.self].doc

\* setter put a new fset on an accessor that has a getter, a deleter and a doc
C7_Witness ==
    /\ rebound.op = "setter"
    /\ props[rebound.self].fget = fget_q /\ props[rebound.self].fdel = fdel_p
    /\ props[rebound.self].fset = None /\ props[rebound.new].fset = fset_q
    /\ props[rebound.new].doc = "q of the field"

-----------------------------------------------------------------------------
(* The demo: class Test with property p, and a script of gets and sets on *)
(* one instance t                                                         *)

\* @cached_property def p ... ; @p.setter def p ...
TestP == setter(__init__(fget_p, None, None, NoDoc), fset_p)

\* the calls of the scenario, in order
Script == <<"Read", "Read", "Write", "Read">>

\* the log keeps as many calls as the scenario has
Logged(op, arg, r, d) ==
    LET all == Append(log, [op |-> op, arg |-> arg, outcome |-> r.outcome,
                            ret |-> r.ret, calls |-> r.calls,
                            pre |-> d, post |-> r.d])
    IN IF Len(all) > Len(Script) THEN Tail(all) ELSE all

\* print(t.p)
MainGet ==
    /\ Apply("Read", TestP, "t1", <<>>, __get__(TestP, dict["t1"]))
    /\ log' = Logged("Read", <<>>, __get__(TestP, dict["t1"]), dict["t1"])

\* t.p = value
MainSet(value) ==
    /\ Apply("Write", TestP, "t1", <<value>>, __set__(TestP, dict["t1"], value))
    /\ log' = Logged("Write", <<value>>, __set__(TestP, dict["t1"], value), dict["t1"])

\* t.inc_p() between the calls of a script
MainIncP ==
    /\ IncPStep("t1")
    /\ log' = Logged("inc_p", <<>>, Result(inc_p(dict["t1"]), "ok", <<>>, <<>>), dict["t1"])

NextMain ==
    \/ MainGet
    \/ \E value \in SetVals : MainSet(value)
    \/ MainIncP

SpecMain == Init /\ [][NextMain]_vars

\* the log is the scenario run on an instance whose field is 10 and whose
\* slot is empty: Read, Read, Write(20), Read
ScenarioRan ==
    /\ Len(log) = Len(Script)
    /\ \A n \in DOMAIN Script : log[n].op = Script[n]
    /\ log[1].pre = NewDict
    /\ log[3].arg = <<20>>

\* C8: on _p = 10 with an empty slot, Read calls the getter once, returns 10
\* and leaves 10 in the slot; the second Read returns 10 without calling the
\* getter; Write(20) makes the field 20 and leaves the slot empty; the last
\* Read calls the getter and returns 20.
C8_Scenario ==
    ScenarioRan
        => /\ log[1].calls = <<"fget">> /\ log[1].ret = <<10>>
           /\ Slot(TestP, log[1].post) = <<10>>
           /\ log[2].calls = <<>> /\ log[2].ret = <<10>>
           /\ log[3].outcome = "ok" /\ log[3].calls = <<"fset">>
           /\ log[3].post[Backing] = 20 /\ Slot(TestP, log[3].post) = <<>>
           /\ log[4].calls = <<"fget">> /\ log[4].ret = <<20>>
           /\ dict["t1"] = log[4].post

\* the scenario has run to its end
C8_Witness == ScenarioRan /\ log[4].ret = <<20>> /\ Slot(TestP, dict["t1"]) = <<20>>

-----------------------------------------------------------------------------
(* Threads calling the descriptor on one instance without a lock: each    *)
(* call runs statement by statement, and statements of different threads  *)
(* interleave                                                             *)

\* Test.p with a deleter added
TestPD == deleter(TestP, fdel_p)

ConcAccessors == {TestPD}

\* thread u is in a call on the slot that a holds on i
OnSlot(u, a, i) ==
    /\ thr[u].pc # "idle" /\ thr[u].inst = i
    /\ thr[u].acc.fget # None /\ a.fget # None
    /\ thr[u].acc.fget.name = a.fget.name

\* threads other than t between the "in obj.__dict__" test of __get__ that
\* found nothing and the store of the value
Computing(t, a, i) ==
    {u \in Threads \ {t} : OnSlot(u, a, i) /\ thr[u].pc \in {"get_call", "get_store"}}

\* threads other than t past fset/fdel and before the end of the invalidation
Invalidating(t, a, i) ==
    {u \in Threads \ {t} : OnSlot(u, a, i) /\ thr[u].pc \in {"inv_test", "inv_del"}}

InCall(t, pc, op, a, i, arg) ==
    [thr EXCEPT ![t] = [pc |-> pc, op |-> op, acc |-> a, inst |-> i, arg |-> arg,
                        value |-> <<>>, crossed |-> FALSE]]

\* the call of thread t ends
Ended(t, outcome, ret, calls) ==
    [Unobserved(thr[t].op, thr[t].acc, thr[t].inst, outcome)
        EXCEPT !.arg = thr[t].arg, !.ret = ret, !.calls = calls]

\* the invalidation of thread t took effect: the slot's getter count starts
\* anew, and every value computed and not yet stored predates it
Cleared(t) ==
    LET a == thr[t].acc
        i == thr[t].inst
    IN /\ ncomp' = [ncomp EXCEPT ![i][a.fget.name] = 0]
       /\ thr' = [u \in Threads |->
                    IF u = t THEN Idle
                    ELSE IF OnSlot(u, a, i) /\ thr[u].pc = "get_store"
                    THEN [thr[u] EXCEPT !.crossed = TRUE]
                    ELSE thr[u]]

\* __get__ up to the test "self.fget.__name__ in obj.__dict__"
GetEnter(t, a, i) ==
    /\ thr[t].pc = "idle"
    /\ IF a.fget = None
       THEN /\ last' = Unobserved("Read", a, i, "Unreadable")
            /\ UNCHANGED <<thr, seen>>
       ELSE IF a.fget.name \in DOMAIN dict[i]
       THEN /\ thr' = InCall(t, "get_fetch", "Read", a, i, <<>>)
            /\ UNCHANGED <<last, seen>>
       ELSE /\ thr' = InCall(t, "get_call", "Read", a, i, <<>>)
            /\ seen' = seen \cup
                  (IF Computing(t, a, i) # {} THEN {"both_found_empty"} ELSE {})
            /\ UNCHANGED last
    /\ UNCHANGED <<dict, ncomp, rets, props, rebound, log>>

\* value = obj.__dict__[self.fget.__name__]; return value
GetFetch(t) ==
    LET a == thr[t].acc
        d == dict[thr[t].inst]
    IN /\ thr[t].pc = "get_fetch"
       /\ thr' = [thr EXCEPT ![t] = Idle]
       /\ IF a.fget.name \in DOMAIN d
          THEN /\ last' = Ended(t, "ok", <<d[a.fget.name]>>, <<>>)
               /\ seen' = seen \cup
                     (IF d[a.fget.name] # CallFget(a.fget, d).ret
                            /\ Invalidating(t, a, thr[t].inst) = {}
                      THEN {"stale_cached"} ELSE {})
          ELSE /\ last' = Ended(t, "KeyError", <<>>, <<>>)
               /\ UNCHANGED seen
       /\ UNCHANGED <<dict, ncomp, rets, props, rebound, log>>

\* the right-hand side of line 102: self.fget(obj)
GetCall(t) ==
    LET a == thr[t].acc
        i == thr[t].inst
        r == CallFget(a.fget, dict[i])
    IN /\ thr[t].pc = "get_call"
       /\ InBounds(r.d)
       /\ dict' = [dict EXCEPT ![i] = r.d]
       /\ thr' = [thr EXCEPT ![t].pc = "get_store", ![t].value = <<r.ret>>]
       /\ ncomp' = [ncomp EXCEPT ![i][a.fget.name] = @ + 1]
       /\ seen' = seen \cup
             (IF ncomp[i][a.fget.name] >= 1 THEN {"computed_twice"} ELSE {})
       /\ UNCHANGED <<last, rets, props, rebound, log>>

\* line 102 without "obj.__dict__[...] =": the value is returned, not cached
StoreNothing(d, k, value) == d

\* what GetStore does to the dict of the instance
StoreValue(d, k, value) == DictSet(d, k, value)

\* the left-hand sides of line 102, and return value
GetStore(t) ==
    LET a == thr[t].acc
        i == thr[t].inst
    IN /\ thr[t].pc = "get_store"
       /\ dict' = [dict EXCEPT ![i] = StoreValue(@, a.fget.name, thr[t].value[1])]
       /\ thr' = [thr EXCEPT ![t] = Idle]
       /\ last' = Ended(t, "ok", thr[t].value, <<"fget">>)
       /\ seen' = seen \cup
             (IF thr[t].crossed THEN {"stored_across_clear"} ELSE {})
       /\ UNCHANGED <<ncomp, rets, props, rebound, log>>

\* __set__ up to and with self.fset(obj, value)
SetEnter(t, a, i, value) ==
    /\ thr[t].pc = "idle"
    /\ IF a.fset = None
       THEN /\ last' = [Unobserved("Write", a, i, "Unwritable") EXCEPT !.arg = <<value>>]
            /\ UNCHANGED <<dict, thr>>
       ELSE /\ dict' = [dict EXCEPT ![i] = CallFset(a.fset, @, value)]
            /\ thr' = InCall(t, "inv_test", "Write", a, i, <<value>>)
            /\ UNCHANGED last
    /\ UNCHANGED <<ncomp, rets, props, rebound, log, seen>>

\* __delete__ up to and with self.fdel(obj)
DeleteEnter(t, a, i) ==
    /\ thr[t].pc = "idle"
    /\ IF a.fdel = None
       THEN /\ last' = Unobserved("Delete", a, i, "Undeletable")
            /\ UNCHANGED <<dict, thr>>
       ELSE /\ dict' = [dict EXCEPT ![i] = CallFdel(a.fdel, @)]
            /\ thr' = InCall(t, "inv_test", "Delete", a, i, <<>>)
            /\ UNCHANGED last
    /\ UNCHANGED <<ncomp, rets, props, rebound, log, seen>>

\* if self.fget.__name__ in obj.__dict__:
InvTest(t) ==
    LET a == thr[t].acc
        i == thr[t].inst
    IN /\ thr[t].pc = "inv_test"
       /\ IF a.fget = None
          THEN /\ thr' = [thr EXCEPT ![t] = Idle]
               /\ last' = Ended(t, "NoneTypeError", <<>>, <<thr[t].op>>)
               /\ UNCHANGED ncomp
          ELSE IF a.fget.name \in DOMAIN dict[i]
          THEN /\ thr' = [thr EXCEPT ![t].pc = "inv_del"]
               /\ UNCHANGED <<last, ncomp>>
          ELSE /\ Cleared(t)
               /\ last' = Ended(t, "ok", <<>>, <<thr[t].op>>)
       /\ UNCHANGED <<dict, rets, props, rebound, log, seen>>

\* del obj.__dict__[self.fget.__name__]
InvDel(t) ==
    LET a == thr[t].acc
        i == thr[t].inst
    IN /\ thr[t].pc = "inv_del"
       /\ IF a.fget.name \in DOMAIN dict[i]
          THEN /\ dict' = [dict EXCEPT ![i] = DictDel(@, a.fget.name)]
               /\ Cleared(t)
               /\ last' = Ended(t, "ok", <<>>, <<thr[t].op>>)
          ELSE /\ thr' = [thr EXCEPT ![t] = Idle]
               /\ last' = Ended(t, "KeyError", <<>>, <<thr[t].op>>)
               /\ UNCHANGED <<dict, ncomp>>
       /\ UNCHANGED <<rets, props, rebound, log, seen>>

NextConc ==
    \/ \E t \in Threads, a \in ConcAccessors, i \in Instances : GetEnter(t, a, i)
    \/ \E t \in Threads : GetFetch(t)
    \/ \E t \in Threads : GetCall(t)
    \/ \E t \in Threads : GetStore(t)
    \/ \E t \in Threads, a \in ConcAccessors, i \in Instances, value \in SetVals :
          SetEnter(t, a, i, value)
    \/ \E t \in Threads, a \in ConcAccessors, i \in Instances : DeleteEnter(t, a, i)
    \/ \E t \in Threads : InvTest(t)
    \/ \E t \in Threads : InvDel(t)

SpecConc == Init /\ [][NextConc]_vars

\* C10: without a lock the getter runs twice for one slot between two
\* invalidations, and a read returns from the cache a value that is not the
\* field's while no write is under way; and these happen only by the two
\* interleavings: a read finding the slot empty while another read is between
\* its own test and its store, and an invalidation taking effect between a
\* read's getter call and its store.
C10_RacesOnly ==
    /\ "computed_twice" \in seen => "both_found_empty" \in seen
    /\ "stale_cached" \in seen => "stored_across_clear" \in seen
    /\ \A i \in Instances, k \in SlotKeys :
          /\ ncomp[i][k] > 1 => "both_found_empty" \in seen
          /\ (k \in DOMAIN dict[i] /\ dict[i][k] # dict[i][Backing]
                /\ \A t \in Threads : thr[t].pc \notin {"inv_test", "inv_del"})
              => \/ "stored_across_clear" \in seen
                 \/ \E t \in Threads : thr[t].pc = "get_store" /\ thr[t].crossed

\* both have happened: the getter ran twice in one cycle, and, all calls
\* over, a read has just returned the cached 10 although 20 was written
C10_Witness ==
    /\ seen = {"both_found_empty", "computed_twice", "stored_across_clear", "stale_cached"}
    /\ \A t \in Threads : thr[t].pc = "idle"
    /\ last.op = "Read" /\ last.calls = <<>> /\ last.ret = <<10>>
    /\ dict[last.inst][Backing] = 20 /\ Slot(last.acc, dict[last.inst]) = <<10>>

-----------------------------------------------------------------------------
(* Two instances of one class sharing its accessors *)

TwoInstances == {"t1", "t2"}

\* a read-only property q next to Test.p
TestQ == __init__(fget_q, None, None, NoDoc)

TwoAccessors == {TestPD, TestQ}

InitTwo ==
    /\ dict = [i \in TwoInstances |-> NewDict]
    /\ last = Unobserved("init", NoAccessor, "None", "ok")
    /\ ncomp = [i \in TwoInstances |-> [k \in SlotKeys |-> 0]]
    /\ rets = [i \in TwoInstances |-> [k \in SlotKeys |-> {}]]
    /\ thr = [t \in Threads |-> Idle]
    /\ log = <<>>
    /\ seen = {}
    /\ props = <<>>
    /\ rebound = NotRebound

NextTwo ==
    \/ \E a \in TwoAccessors, i \in TwoInstances : Read(a, i)
    \/ \E a \in TwoAccessors, i \in TwoInstances, value \in SetVals : Write(a, i, value)
    \/ \E a \in TwoAccessors, i \in TwoInstances : Delete(a, i)

SpecTwo == InitTwo /\ [][NextTwo]_vars

\* C13: a read, write or delete on one instance leaves the __dict__ of every
\* other instance as it was, and a read that finds its own instance's slot
\* empty calls the getter on that instance, whatever the others have cached.
C13_PerInstance ==
    [][\A i \in TwoInstances :
          last'.inst = i
              => /\ \A j \in TwoInstances \ {i} : dict'[j] = dict[j]
                 /\ (last'.op = "Read" /\ last'.outcome = "ok"
                        /\ Slot(last'.acc, dict[i]) = <<>>)
                     => /\ last'.calls = <<"fget">>
                        /\ last'.ret = <<CallFget(last'.acc.fget, dict[i]).ret>>]_vars

\* t1 has 10 cached for p; the first read of p on t2, whose field is 20,
\* called the getter and returned 20
C13_Witness ==
    /\ last.op = "Read" /\ last.inst = "t2" /\ last.acc = TestPD
    /\ last.calls = <<"fget">> /\ last.ret = <<20>>
    /\ Slot(TestPD, dict["t1"]) = <<10>> /\ dict["t1"][Backing] = 10

-----------------------------------------------------------------------------
(* User functions that raise, and values that are false: one instance of  *)
(* a class whose property p is built from any of the setters and deleters *)

UserAccessors ==
    {__init__(fget_p, s, e, NoDoc) :
        s \in {fset_p, fset_fail, fset_refuse}, e \in {fdel_p, fdel_fail}}

UserVals == SetVals \cup FalsyVals

NextUser ==
    \/ \E a \in UserAccessors, i \in Instances : Read(a, i)
    \/ \E a \in UserAccessors, i \in Instances, value \in UserVals : Write(a, i, value)
    \/ \E a \in UserAccessors, i \in Instances : Delete(a, i)

SpecUser == Init /\ [][NextUser]_vars

\* C16: a slot is occupied when its key is present, whatever the value: a
\* read that finds the key returns the value under it without calling the
\* getter, so a read right after a read through the same accessor returns
\* the cached value, be it 0.
C16_PresenceNotTruth ==
    /\ (last.op = "Read" /\ last.slot0 # <<>>)
        => (last.calls = <<>> /\ last.ret = last.slot0)
    /\ (last.op = "Read" /\ last.after = "Read")
        => (last.slot0 # <<>> /\ last.calls = <<>> /\ last.ret = last.slot0)

\* the getter returned 0, and the read after it returned the cached 0
C16_Witness ==
    /\ last.op = "Read" /\ last.after = "Read"
    /\ last.ret = <<0>> /\ last.calls = <<>>
    /\ Slot(last.acc, dict[last.inst]) = <<0>>

\* C17: when fset or fdel raises, the exception reaches the caller and the
\* slot is as the call found it; a value cached before is returned by the
\* next read through the accessor without a getter call, also when the user
\* function changed the field before it raised.
C17_UserErrorKeepsCache ==
    /\ (last.op \in {"Write", "Delete"} /\ Raises(IF last.op = "Write"
                                                   THEN last.acc.fset
                                                   ELSE last.acc.fdel))
        => /\ last.outcome = "UserError"
           /\ Slot(last.acc, dict[last.inst]) = last.slot0
    /\ (last.op = "Read" /\ last.failed = "UserError" /\ last.slot0 # <<>>)
        => (last.calls = <<>> /\ last.ret = last.slot0)

\* 10 was cached, a setter made the field 20 and raised, and the next read
\* returned 10
C17_Witness ==
    /\ last.op = "Read" /\ last.failed = "UserError"
    /\ last.acc.fset = fset_fail
    /\ last.calls = <<>> /\ last.ret = <<10>>
    /\ dict[last.inst][Backing] = 20

====
